---- MODULE Spec2Model ----
(***************************************************************************)
(* A model of xwing-monte-carlo.go: the dice tally, Ship.Attack, the       *)
(* round engine Match.PerformCombatRound, Match.Play and the fan-in of     *)
(* main.  One trial goroutine is a process with a program counter; one     *)
(* activation of a combatant (action hook, target choice, Attack) is one   *)
(* step of it.                                                             *)
(***************************************************************************)
EXTENDS Integers, Sequences, FiniteSets, TLC

VARIABLES
    roster,          \* the ship literals main builds each iteration
    hook,            \* the performAction argument of Play
    nIterations,     \* main's nIterations
    ships,           \* ships[t][id]: the Ship structs of trial t
    rebelList,       \* rebelList[t]: Match.rebelList, a sequence of ship ids
    empireList,      \* empireList[t]: Match.empireList
    pc,              \* pc[t]: where trial t's goroutine stands
    ps,              \* ps[t]: the loop variable ps of PerformCombatRound
    combatants,      \* combatants[t]: the slice gathered for level ps
    idx,             \* idx[t]: position of the range loop over combatants
    result,          \* result[t]: Play's local result
    mainPc,          \* where main stands
    spawned,         \* main's loop variable i
    resultsReceived, \* main's resultsReceived
    results,         \* main's AggregateResults
    rng,             \* state of math/rand's process-wide source
    rngUsers,        \* the goroutines that have drawn from that source
    lastAct,         \* lastAct[t]: the latest activation of trial t (observation)
    killedInLevel,   \* killedInLevel[t]: ships destroyed since the level began
    last,            \* the latest Attack in full detail (observation)
    rerun,           \* the run being made with the recorded seed
    dice,            \* the latest operation on a DiceResults by itself (observation)
    acted,           \* acted[t]: the activations of the current round (observation)
    seen             \* the die faces drawn so far, each with its DieResult (observation)

vars == <<roster, hook, nIterations, ships, rebelList, empireList, pc, ps,
          combatants, idx, result, mainPc, spawned, resultsReceived, results,
          rng, rngUsers, lastAct, killedInLevel, last, rerun, dice,
          acted, seen>>

----------------------------------------------------------------------------
(* Bounds of the model. *)

\* The most focus or evade tokens the action hook lets a ship hold.
MaxTokens == 2
\* The number of trials the driver specifications run.
NTrials == 2
\* The number of states of the seeded generator.
RngMod == 8
\* The attack dice of the ships drawn for Attack on its own; the defense
\* dice, the shields and the hull go up to one less.
MaxDice == 3

----------------------------------------------------------------------------
(* Program constants. *)

NEITHER == 0
REBELS == 1
EMPIRE == 2

BLANK == 0
FOCUS == 1
HIT == 2
CRIT == 3
EVADE == 4

\* for ps := 12; ps > -1; ps--
TopSkill == 12
\* rand.Int31n(8)
DieFaces == 8
\* uint8(rand.Int31n(33)) < 7
DirectHitFaces == 33
DirectHitBelow == 7

\* rand.Seed(time.Now().UnixNano()): the state of the source is not known.
UnknownRng == -1

Min(a, b) == IF a < b THEN a ELSE b

Uint8(v) == v % 256

----------------------------------------------------------------------------
(* The random source.  A generator r is [st, used]: st is the state of the *)
(* source (UnknownRng when it was seeded from the clock) and used tells    *)
(* whether the current step has drawn from it.                             *)

RngNext(s) == (5 * s + 3) % RngMod

\* rand.Int31n(n): the set of <<value, generator after the draw>>.
RandInt31n(n, r) ==
    IF r.st = UnknownRng
    THEN {<<v, [st |-> UnknownRng, used |-> TRUE]>> : v \in 0 .. (n - 1)}
    ELSE {<<RngNext(r.st) % n, [st |-> RngNext(r.st), used |-> TRUE]>>}

----------------------------------------------------------------------------
(* Dice. *)

NoDice == [hits |-> 0, crits |-> 0, evades |-> 0, focuses |-> 0, blanks |-> 0]

\* AttackDieFace with the cases of DefenseDie for blank and focus.
AttackDieFaceThreeBlanks(v) ==
    LET face == Uint8(v)
    IN  IF face < 3 THEN BLANK
        ELSE IF face < 5 THEN FOCUS
        ELSE IF face < 7 THEN HIT
        ELSE CRIT

AttackDieFace(v) ==
    LET face == Uint8(v)
    IN  IF face < 2 THEN BLANK
        ELSE IF face < 4 THEN FOCUS
        ELSE IF face < 7 THEN HIT
        ELSE CRIT

DefenseDieFace(v) ==
    LET face == Uint8(v)
    IN  IF face < 3 THEN BLANK
        ELSE IF face < 5 THEN FOCUS
        ELSE EVADE

\* AttackDie() / DefenseDie(): the set of <<DieResult, generator>>.
AttackDie(r) == {<<AttackDieFace(d[1]), d[2]>> : d \in RandInt31n(DieFaces, r)}

DefenseDie(r) == {<<DefenseDieFace(d[1]), d[2]>> : d \in RandInt31n(DieFaces, r)}

RollFunc(rollfunc, r) ==
    IF rollfunc = "attack" THEN AttackDie(r) ELSE DefenseDie(r)

\* The switch of Roll: one die result counted into the tally.
Count(res, face) ==
    CASE face = BLANK -> [res EXCEPT !.blanks = @ + 1]
      [] face = FOCUS -> [res EXCEPT !.focuses = @ + 1]
      [] face = HIT -> [res EXCEPT !.hits = @ + 1]
      [] face = CRIT -> [res EXCEPT !.crits = @ + 1]
      [] face = EVADE -> [res EXCEPT !.evades = @ + 1]
      [] OTHER -> res

\* The loop of Roll from its i-th turn on: sofar is the set of <<results,
\* generator>> the turns before it can have left.
RECURSIVE RollInto(_, _, _)
RollInto(sofar, numDice, rollfunc) ==
    IF numDice <= 0
    THEN sofar
    ELSE RollInto(UNION {{<<Count(x[1], d[1]), d[2]>> : d \in RollFunc(rollfunc, x[2])} :
                             x \in sofar},
                  numDice - 1, rollfunc)

\* Roll(numDice, rollfunc): the set of <<DiceResults, generator>>.
Roll(numDice, rollfunc, r) == RollInto({<<NoDice, r>>}, numDice, rollfunc)

Add(res, other) ==
    [hits |-> res.hits + other.hits,
     crits |-> res.crits + other.crits,
     evades |-> res.evades + other.evades,
     focuses |-> res.focuses + other.focuses,
     blanks |-> res.blanks + other.blanks]

RerollBlanks(res, rollfunc, r) ==
    IF res.blanks = 0
    THEN {<<res, r>>}
    ELSE {<<Add([res EXCEPT !.blanks = 0], n[1]), n[2]>> :
              n \in Roll(res.blanks, rollfunc, r)}

RerollOneBlank(res, rollfunc, r) ==
    IF res.blanks = 0
    THEN {<<res, r>>}
    ELSE {<<Add([res EXCEPT !.blanks = @ - 1], n[1]), n[2]>> :
              n \in Roll(1, rollfunc, r)}

\* RerollBlanksAndFocuses that rerolls the focuses without taking them out.
RerollKeepingFocuses(res, rollfunc, r) ==
    IF res.blanks = 0 /\ res.focuses = 0
    THEN {<<res, r>>}
    ELSE {<<Add([res EXCEPT !.blanks = 0], n[1]), n[2]>> :
              n \in Roll(res.blanks + res.focuses, rollfunc, r)}

RerollBlanksAndFocuses(res, rollfunc, r) ==
    IF res.blanks = 0 /\ res.focuses = 0
    THEN {<<res, r>>}
    ELSE {<<Add([res EXCEPT !.blanks = 0, !.focuses = 0], n[1]), n[2]>> :
              n \in Roll(res.blanks + res.focuses, rollfunc, r)}

\* RerollOneBlankOrFocus that takes a focus if there is one, else a blank.
RerollOneFocusOrBlank(res, rollfunc, r) ==
    IF res.blanks = 0 /\ res.focuses = 0
    THEN {<<res, r>>}
    ELSE IF res.focuses > 0
    THEN {<<Add([res EXCEPT !.focuses = @ - 1], n[1]), n[2]>> :
              n \in Roll(1, rollfunc, r)}
    ELSE RerollOneBlank(res, rollfunc, r)

RerollOneBlankOrFocus(res, rollfunc, r) ==
    IF res.blanks = 0 /\ res.focuses = 0
    THEN {<<res, r>>}
    ELSE IF res.blanks > 0
    THEN RerollOneBlank(res, rollfunc, r)
    ELSE {<<Add([res EXCEPT !.focuses = @ - 1], n[1]), n[2]>> :
              n \in Roll(1, rollfunc, r)}

SpendFocus(res, onWhat) ==
    LET spent == CASE onWhat = "attack" -> [res EXCEPT !.hits = @ + res.focuses]
                   [] onWhat = "defense" -> [res EXCEPT !.evades = @ + res.focuses]
                   [] OTHER -> res
    IN  [spent EXCEPT !.focuses = 0]

----------------------------------------------------------------------------
(* Ships. *)

CleanUp(ship) == [ship EXCEPT !.focusTokens = 0, !.evadeTokens = 0]

Focus(ship) == [ship EXCEPT !.focusTokens = @ + 1]

Evade(ship) == [ship EXCEPT !.evadeTokens = @ + 1]

\* SpendTargetLock that takes the squad reroll away with the lock.
SpendTargetLockAndSquadReroll(ship) ==
    [ship EXCEPT !.lockedOnto = 0, !.hasHowlrunnerReroll = FALSE]

SpendTargetLock(ship) == [ship EXCEPT !.lockedOnto = 0]

----------------------------------------------------------------------------
(* Ship.Attack.  ships are the structs of one trial, attacker and defender *)
(* the ids of ship and target.                                             *)

\* The reroll decision: the set of [res, r, ship, branch].
AttackReroll(ship, defender, res, r) ==
    IF ship.focusTokens = 0
    THEN IF res.blanks > 0 /\ ship.lockedOnto = defender
         THEN {[res |-> n[1], r |-> n[2], ship |-> SpendTargetLock(ship), branch |-> "a"] :
                   n \in RerollBlanksAndFocuses(res, "attack", r)}
         ELSE IF ship.hasHowlrunnerReroll /\ (res.blanks > 0 \/ res.focuses > 0)
         THEN {[res |-> n[1], r |-> n[2], ship |-> ship, branch |-> "b"] :
                   n \in RerollOneBlankOrFocus(res, "attack", r)}
         ELSE {[res |-> res, r |-> r, ship |-> ship, branch |-> "none"]}
    ELSE IF res.blanks > 0
    THEN IF ship.lockedOnto = defender
         THEN {[res |-> n[1], r |-> n[2], ship |-> SpendTargetLock(ship), branch |-> "c"] :
                   n \in RerollBlanks(res, "attack", r)}
         ELSE IF ship.hasHowlrunnerReroll
         THEN {[res |-> n[1], r |-> n[2], ship |-> ship, branch |-> "d"] :
                   n \in RerollOneBlank(res, "attack", r)}
         ELSE {[res |-> res, r |-> r, ship |-> ship, branch |-> "none"]}
    ELSE {[res |-> res, r |-> r, ship |-> ship, branch |-> "none"]}

\* BurnFocus that pays a token for every focus result it turns.
BurnFocusEach(ship, res, onWhat) ==
    IF res.focuses > 0 /\ ship.focusTokens > 0
    THEN [res |-> SpendFocus(res, onWhat),
          ship |-> [ship EXCEPT !.focusTokens = @ - Min(@, res.focuses)],
          burned |-> TRUE]
    ELSE [res |-> res, ship |-> ship, burned |-> FALSE]

\* BurnFocus without the test of focusTokens.
BurnFocusUnchecked(ship, res, onWhat) ==
    IF res.focuses > 0
    THEN [res |-> SpendFocus(res, onWhat),
          ship |-> [ship EXCEPT !.focusTokens = @ - 1],
          burned |-> TRUE]
    ELSE [res |-> res, ship |-> ship, burned |-> FALSE]

\* if results.focuses > 0 && tokens > 0 { SpendFocus; tokens-- }
BurnFocus(ship, res, onWhat) ==
    IF res.focuses > 0 /\ ship.focusTokens > 0
    THEN [res |-> SpendFocus(res, onWhat),
          ship |-> [ship EXCEPT !.focusTokens = @ - 1],
          burned |-> TRUE]
    ELSE [res |-> res, ship |-> ship, burned |-> FALSE]

\* SpendEvadeTokens with the loop running while target.evadeTokens > 1.
RECURSIVE SpendEvadeTokensButLast(_, _, _, _)
SpendEvadeTokensButLast(target, evades, totalHits, added) ==
    IF target.evadeTokens > 1
    THEN IF evades + 1 >= totalHits
         THEN [target |-> target, evades |-> evades + 1, added |-> added + 1,
               evaded |-> TRUE]
         ELSE SpendEvadeTokensButLast([target EXCEPT !.evadeTokens = @ - 1],
                                      evades + 1, totalHits, added + 1)
    ELSE [target |-> target, evades |-> evades, added |-> added, evaded |-> FALSE]

\* for ; target.evadeTokens > 0; target.evadeTokens-- { evades++; if ... return }
RECURSIVE SpendEvadeTokens(_, _, _, _)
SpendEvadeTokens(target, evades, totalHits, added) ==
    IF target.evadeTokens > 0
    THEN IF evades + 1 >= totalHits
         THEN [target |-> target, evades |-> evades + 1, added |-> added + 1,
               evaded |-> TRUE]
         ELSE SpendEvadeTokens([target EXCEPT !.evadeTokens = @ - 1],
                               evades + 1, totalHits, added + 1)
    ELSE [target |-> target, evades |-> evades, added |-> added, evaded |-> FALSE]

\* CancelDamage with the crits cancelled before the hits.
CancelCritsFirst(attackResults, evades) ==
    LET critsCanceled == Min(attackResults.crits, evades)
        hitsCanceled == Min(attackResults.hits, evades - critsCanceled)
    IN  [attackResults EXCEPT !.hits = @ - hitsCanceled,
                              !.crits = @ - critsCanceled]

\* cancel hits before crits
CancelDamage(attackResults, evades) ==
    LET hitsCanceled == Min(attackResults.hits, evades)
        critsCanceled == Min(attackResults.crits, evades - hitsCanceled)
    IN  [attackResults EXCEPT !.hits = @ - hitsCanceled,
                              !.crits = @ - critsCanceled]

\* ShieldDamage without the block that applies crits to the shields.
ShieldDamageHitsOnly(attackResults, target) ==
    LET onHits == Min(attackResults.hits, target.shields)
    IN  [res |-> [attackResults EXCEPT !.hits = @ - onHits],
         target |-> [target EXCEPT !.shields = @ - onHits],
         shieldHits |-> onHits,
         shieldCrits |-> 0]

\* all damage to shields first: regular hits, then crits
ShieldDamage(attackResults, target) ==
    LET onHits == Min(attackResults.hits, target.shields)
        hitsLeft == attackResults.hits - onHits
        shieldsLeft == target.shields - onHits
        onCrits == IF hitsLeft = 0 /\ shieldsLeft > 0
                   THEN Min(attackResults.crits, shieldsLeft)
                   ELSE 0
    IN  [res |-> [attackResults EXCEPT !.hits = hitsLeft, !.crits = @ - onCrits],
         target |-> [target EXCEPT !.shields = shieldsLeft - onCrits],
         shieldHits |-> onHits,
         shieldCrits |-> onCrits]

\* if attackResults.hits > 0 { target.hull -= attackResults.hits }
HullHits(attackResults, target) ==
    IF attackResults.hits > 0
    THEN [target EXCEPT !.hull = @ - attackResults.hits]
    ELSE target

\* uint8(rand.Int31n(33)) < 7: the set of <<direct hit or not, generator>>.
DirectHit(r) ==
    {<<Uint8(d[1]) < DirectHitBelow, d[2]>> : d \in RandInt31n(DirectHitFaces, r)}

\* CritsToHull with a direct hit that costs three hull points.
RECURSIVE CritsToHullThree(_, _, _, _)
CritsToHullThree(crits, hull, direct, r) ==
    IF crits <= 0
    THEN {<<hull, direct, r>>}
    ELSE UNION {IF d[1]
                THEN CritsToHullThree(crits - 1, hull - 3, direct + 1, d[2])
                ELSE CritsToHullThree(crits - 1, hull - 1, direct, d[2]) :
                    d \in DirectHit(r)}

\* apply crits to hull: the set of <<hull, direct hits, generator>>.
RECURSIVE CritsToHull(_, _, _, _)
CritsToHull(crits, hull, direct, r) ==
    IF crits <= 0
    THEN {<<hull, direct, r>>}
    ELSE UNION {IF d[1]
                THEN CritsToHull(crits - 1, hull - 2, direct + 1, d[2])
                ELSE CritsToHull(crits - 1, hull - 1, direct, d[2]) :
                    d \in DirectHit(r)}

\* MarkDestroyed with the test hull < 0.
MarkDestroyedBelowZero(target) ==
    IF target.hull < 0 THEN [target EXCEPT !.isDestroyed = TRUE] ELSE target

\* if target.hull < 1 { target.isDestroyed = true }
MarkDestroyed(target) ==
    IF target.hull < 1 THEN [target EXCEPT !.isDestroyed = TRUE] ELSE target

\* NaturalEvade with the test left out: the resolution always goes on.
NaturalEvadeNever(defenseResults, totalHits) == FALSE

\* if defenseResults.evades >= totalHits { return }, after the defense roll
NaturalEvade(defenseResults, totalHits) == defenseResults.evades >= totalHits

\* What one Attack did, for the observation variables.
AttackInfo(branch, final, burned, spent, defRolled) ==
    [branch |-> branch, final |-> final,
     attackBurned |-> burned, focusesSpent |-> spent,
     totalHits |-> final.hits + final.crits,
     rolledEvades |-> defRolled.evades, defenseBurned |-> FALSE, evadesAdded |-> 0,
     evades |-> defRolled.evades, evadedBy |-> "none",
     damage |-> NoDice, shieldHits |-> 0, shieldCrits |-> 0,
     hullHits |-> 0, hullCrits |-> 0, directHits |-> 0]

\* The defense and damage part of Attack, from the defense roll on: the set of
\* [ship, target, r, info].
Defend(ship, target, attackResults, defenseResults, r, info) ==
    LET totalHits == attackResults.hits + attackResults.crits
        out(tg, gen, inf) == [ship |-> ship, target |-> tg, r |-> gen, info |-> inf]
        burn == BurnFocus(target, defenseResults, "defense")
        spent == SpendEvadeTokens(burn.ship, burn.res.evades, totalHits, 0)
        inf1 == [info EXCEPT !.defenseBurned = burn.burned,
                             !.evades = burn.res.evades]
        inf2 == [inf1 EXCEPT !.evadesAdded = spent.added, !.evades = spent.evades]
        sustained == CancelDamage(attackResults, spent.evades)
        shielded == ShieldDamage(sustained, spent.target)
        hulled == HullHits(shielded.res, shielded.target)
        inf3 == [inf2 EXCEPT !.damage = sustained,
                             !.shieldHits = shielded.shieldHits,
                             !.shieldCrits = shielded.shieldCrits,
                             !.hullHits = shielded.res.hits,
                             !.hullCrits = shielded.res.crits]
    IN  IF NaturalEvade(defenseResults, totalHits)
        THEN {out(target, r, [info EXCEPT !.evadedBy = "natural"])}
        ELSE IF burn.res.evades >= totalHits
        THEN {out(burn.ship, r, [inf1 EXCEPT !.evadedBy = "focus"])}
        ELSE IF spent.evaded
        THEN {out(spent.target, r, [inf2 EXCEPT !.evadedBy = "evade"])}
        ELSE {out(MarkDestroyed([hulled EXCEPT !.hull = c[1]]), c[3],
                  [inf3 EXCEPT !.directHits = c[2]]) :
                  c \in CritsToHull(shielded.res.crits, hulled.hull, 0, r)}

\* ship.Attack(target): the set of [ship, target, r, info], ship and target
\* being the two structs after the call.
Attack(ship, target, defender, r) ==
    UNION {UNION {UNION {
        LET burn == BurnFocus(rr.ship, rr.res, "attack")
        IN  Defend(burn.ship, target, burn.res, dr[1], dr[2],
                   AttackInfo(rr.branch, burn.res, burn.burned,
                              IF burn.burned THEN rr.res.focuses ELSE 0,
                              dr[1])) :
            dr \in Roll(target.defense, "defense", rr.r)} :
        rr \in AttackReroll(ship, defender, ar[1], ar[2])} :
        ar \in Roll(ship.attack, "attack", r)}

----------------------------------------------------------------------------
(* Squadrons and rosters. *)

\* A Ship literal of main: the fields it does not name are zero.
NewShip(faction, skill, attack, defense, hull, shields, provides) ==
    [faction |-> faction, skill |-> skill, attack |-> attack,
     defense |-> defense, hull |-> hull, shields |-> shields,
     focusTokens |-> 0, evadeTokens |-> 0, lockedOnto |-> 0,
     hasHowlrunnerReroll |-> FALSE, providesHowlrunnerReroll |-> provides,
     isDestroyed |-> FALSE]

Swap(s, i, j) == [s EXCEPT ![i] = s[j], ![j] = s[i]]

\* sort.Reverse(s).Less(i, j) is s.Less(j, i)
ReverseLess(structs, s, i, j) == structs[s[j]].skill < structs[s[i]].skill

\* sort.Sort on fewer than seven elements is an insertion sort:
\* for j := i; j > a && data.Less(j, j-1); j-- { data.Swap(j, j-1) }
RECURSIVE InsertionStep(_, _, _)
InsertionStep(structs, s, j) ==
    IF j > 1 /\ ReverseLess(structs, s, j, j - 1)
    THEN InsertionStep(structs, Swap(s, j, j - 1), j - 1)
    ELSE s

RECURSIVE InsertionSort(_, _, _)
InsertionSort(structs, s, i) ==
    IF i > Len(s) THEN s
    ELSE InsertionSort(structs, InsertionStep(structs, s, i), i + 1)

\* NewSquadron(l): the ids of l by non-increasing skill.
NewSquadron(structs, l) == InsertionSort(structs, l, 2)

\* The structs of a roster r: rebels take the ids 1 .. Len(r.rebels), the
\* empire the ids after them.
RosterShips(r) == r.rebels \o r.empire

RebelIds(r) == [i \in 1 .. Len(r.rebels) |-> i]

EmpireIds(r) == [i \in 1 .. Len(r.empire) |-> Len(r.rebels) + i]

\* The rosters the match specification draws from.
Rosters ==
    {[rebels |-> <<NewShip(REBELS, 8, 2, 1, 2, 1, FALSE)>>,
      empire |-> <<NewShip(EMPIRE, 8, 2, 1, 2, 0, FALSE)>>],
     [rebels |-> <<NewShip(REBELS, 7, 2, 1, 1, 1, FALSE),
                   NewShip(REBELS, 8, 1, 0, 2, 0, FALSE)>>,
      empire |-> <<NewShip(EMPIRE, 7, 2, 0, 1, 0, FALSE),
                   NewShip(EMPIRE, 8, 1, 1, 1, 0, TRUE)>>]}

\* The roster of the driver specifications: one ship a side, one hull point.
DriverRosters ==
    {[rebels |-> <<NewShip(REBELS, 8, 1, 0, 1, 0, FALSE)>>,
      empire |-> <<NewShip(EMPIRE, 7, 1, 0, 1, 0, FALSE)>>]}

\* The duel of two equal ships: hull 3, shields 0, attack 2, defense 0.
DuelRosters ==
    {[rebels |-> <<NewShip(REBELS, 8, 2, 0, 3, 0, FALSE)>>,
      empire |-> <<NewShip(EMPIRE, 8, 2, 0, 3, 0, FALSE)>>]}

HookKinds == {"focus", "evade", "none"}

\* The hook of the driver specification does nothing: no hook touches the
\* channel or main, and the tokens a hook grants stay within the match.
DriverHooks == {"none"}

\* performAction(ship)
PerformAction(kind, ship) ==
    CASE kind = "focus" -> Focus(ship)
      [] kind = "evade" -> Evade(ship)
      [] OTHER -> ship

\* The hook is only run while it keeps the token counts within MaxTokens.
WithinTokens(kind, ship) ==
    /\ kind = "focus" => ship.focusTokens < MaxTokens
    /\ kind = "evade" => ship.evadeTokens < MaxTokens

----------------------------------------------------------------------------
(* Match.PerformCombatRound. *)

NilResult == [isNil |-> TRUE, winner |-> NEITHER, shipsRemaining |-> 0]

NewResult(winner, n) == [isNil |-> FALSE, winner |-> winner, shipsRemaining |-> n]

\* HowlrunnerRerollAvailable without the test of isDestroyed.
HowlrunnerRerollOfAnyGranter(structs, empire) ==
    \E i \in 1 .. Len(empire) : structs[empire[i]].providesHowlrunnerReroll

\* for _, ship := range empireList { if provides && !isDestroyed { available = true } }
HowlrunnerRerollAvailable(structs, empire) ==
    \E i \in 1 .. Len(empire) :
        /\ structs[empire[i]].providesHowlrunnerReroll
        /\ ~structs[empire[i]].isDestroyed

\* Eligible without the test of isDestroyed.
EligibleDestroyedToo(ship, level) == ship.skill = level

\* if ship.skill == ps && !ship.isDestroyed
Eligible(ship, level) == ship.skill = level /\ ~ship.isDestroyed

\* Gather with the loop over rebelList run twice.
GatherRebelsTwice(structs, rebels, empire, level) ==
    LET ok(id) == Eligible(structs[id], level)
    IN  SelectSeq(rebels, ok) \o SelectSeq(rebels, ok) \o SelectSeq(empire, ok)

\* Gather with the two loops exchanged: the imperials, then the rebels.
GatherEmpireFirst(structs, rebels, empire, level) ==
    LET ok(id) == Eligible(structs[id], level)
    IN  SelectSeq(empire, ok) \o SelectSeq(rebels, ok)

\* Gather eligible ships: the rebels of the level, then the imperials.
Gather(structs, rebels, empire, level) ==
    LET ok(id) == Eligible(structs[id], level)
    IN  SelectSeq(rebels, ok) \o SelectSeq(empire, ok)

\* GrantReroll that gives every gathered imperial the flag, granter or not.
GrantRerollAlways(structs, empire, level) ==
    LET gathered == {empire[i] : i \in 1 .. Len(empire)}
    IN  [id \in DOMAIN structs |->
            IF /\ id \in gathered
               /\ Eligible(structs[id], level)
               /\ ~structs[id].providesHowlrunnerReroll
            THEN [structs[id] EXCEPT !.hasHowlrunnerReroll = TRUE]
            ELSE structs[id]]

\* The structs after the gathering of a level: each gathered imperial that
\* does not provide the reroll is given the flag computed for the level.
GrantReroll(structs, empire, level) ==
    LET available == HowlrunnerRerollAvailable(structs, empire)
        gathered == {empire[i] : i \in 1 .. Len(empire)}
    IN  [id \in DOMAIN structs |->
            IF /\ id \in gathered
               /\ Eligible(structs[id], level)
               /\ ~structs[id].providesHowlrunnerReroll
            THEN [structs[id] EXCEPT !.hasHowlrunnerReroll = available]
            ELSE structs[id]]

\* The next level from `level` down at which a ship is gathered, -1 when the
\* loop over ps ends: a level that gathers nobody changes nothing.
RECURSIVE NextLevel(_, _, _, _)
NextLevel(structs, rebels, empire, level) ==
    IF level <= -1 THEN -1
    ELSE IF Gather(structs, rebels, empire, level) # <<>> THEN level
    ELSE NextLevel(structs, rebels, empire, level - 1)

\* FirstSurvivor without its break: the last survivor of the list.
RECURSIVE FirstSurvivorNoBreak(_, _, _)
FirstSurvivorNoBreak(structs, list, i) ==
    IF i > Len(list) THEN 0
    ELSE LET later == FirstSurvivorNoBreak(structs, list, i + 1)
         IN  IF later # 0 THEN later
             ELSE IF ~structs[list[i]].isDestroyed THEN list[i]
             ELSE 0

\* for _, enemy_ship := range enemy_list { if !isDestroyed { target = it; break } }
RECURSIVE FirstSurvivor(_, _, _)
FirstSurvivor(structs, list, i) ==
    IF i > Len(list) THEN 0
    ELSE IF ~structs[list[i]].isDestroyed THEN list[i]
    ELSE FirstSurvivor(structs, list, i + 1)

\* switch ship.faction { case REBELS: empireList; case EMPIRE: rebelList }
EnemyList(ship, rebels, empire) ==
    CASE ship.faction = REBELS -> empire
      [] ship.faction = EMPIRE -> rebels
      [] OTHER -> <<>>

Remaining(structs, list) ==
    Cardinality({i \in 1 .. Len(list) : ~structs[list[i]].isDestroyed})

\* RoundResult with the two counts exchanged in the results it builds.
RoundResultSwapped(structs, rebels, empire) ==
    LET nRebelsRemaining == Remaining(structs, rebels)
        nImperialsRemaining == Remaining(structs, empire)
    IN  CASE nRebelsRemaining > 0 /\ nImperialsRemaining > 0 -> NilResult
          [] nRebelsRemaining > 0 -> NewResult(REBELS, nImperialsRemaining)
          [] nImperialsRemaining > 0 -> NewResult(EMPIRE, nRebelsRemaining)
          [] OTHER -> NewResult(NEITHER, 0)

\* RoundResult with a draw when no imperial is left, rebels or no rebels.
RoundResultDrawWithoutImperials(structs, rebels, empire) ==
    LET nRebelsRemaining == Remaining(structs, rebels)
        nImperialsRemaining == Remaining(structs, empire)
    IN  CASE nRebelsRemaining > 0 /\ nImperialsRemaining > 0 -> NilResult
          [] nImperialsRemaining > 0 -> NewResult(EMPIRE, nImperialsRemaining)
          [] OTHER -> NewResult(NEITHER, 0)

\* The switch that ends PerformCombatRound.
RoundResult(structs, rebels, empire) ==
    LET nRebelsRemaining == Remaining(structs, rebels)
        nImperialsRemaining == Remaining(structs, empire)
    IN  CASE nRebelsRemaining > 0 /\ nImperialsRemaining > 0 -> NilResult
          [] nRebelsRemaining > 0 -> NewResult(REBELS, nRebelsRemaining)
          [] nImperialsRemaining > 0 -> NewResult(EMPIRE, nImperialsRemaining)
          [] OTHER -> NewResult(NEITHER, 0)

----------------------------------------------------------------------------
(* The state after main's declarations, before its first loop. *)

Trials == 1 .. nIterations

NoAct == [ship |-> 0, target |-> 0, wasDestroyed |-> FALSE,
          killedThisLevel |-> FALSE, level |-> -1, squadReroll |-> FALSE,
          granterAlive |-> FALSE, granterAtGather |-> FALSE,
          hadReroll |-> FALSE, provides |-> FALSE]

NoAttack == [attacker |-> 0, defender |-> 0, before |-> <<>>,
             info |-> AttackInfo("none", NoDice, FALSE, 0, NoDice)]

NoResults == [rebelWins |-> 0, empireWins |-> 0, draws |-> 0]

NoDiceOp == [op |-> "none", numDice |-> 0, before |-> NoDice, results |-> NoDice]

InitWith(rosters, hooks, n, seeds) ==
    /\ roster \in rosters
    /\ hook \in hooks
    /\ nIterations = n
    /\ ships = [t \in 1 .. n |-> <<>>]
    /\ rebelList = [t \in 1 .. n |-> <<>>]
    /\ empireList = [t \in 1 .. n |-> <<>>]
    /\ pc = [t \in 1 .. n |-> "idle"]
    /\ ps = [t \in 1 .. n |-> TopSkill]
    /\ combatants = [t \in 1 .. n |-> <<>>]
    /\ idx = [t \in 1 .. n |-> 1]
    /\ result = [t \in 1 .. n |-> NilResult]
    /\ mainPc = "spawn"
    /\ spawned = 0
    /\ resultsReceived = 0
    /\ results = NoResults
    /\ rng \in seeds
    /\ rngUsers = {}
    /\ lastAct = [t \in 1 .. n |-> NoAct]
    /\ killedInLevel = [t \in 1 .. n |-> {}]
    /\ last = NoAttack
    /\ rerun = [run |-> 1, seed |-> rng, first |-> NoResults]
    /\ dice = NoDiceOp
    /\ acted = [t \in 1 .. nIterations |-> <<>>]
    /\ seen = {}

\* One match, the source seeded from the clock.
Init == InitWith(Rosters, HookKinds, 1, {UnknownRng})

----------------------------------------------------------------------------
(* main: the loop that builds the ships and starts the goroutines. *)

Spawn ==
    /\ mainPc = "spawn"
    /\ spawned < nIterations
    /\ LET t == spawned + 1
           structs == RosterShips(roster)
       IN  /\ ships' = [ships EXCEPT ![t] = structs]
           /\ rebelList' = [rebelList EXCEPT ![t] = NewSquadron(structs, RebelIds(roster))]
           /\ empireList' = [empireList EXCEPT ![t] = NewSquadron(structs, EmpireIds(roster))]
           /\ pc' = [pc EXCEPT ![t] = "start"]
           /\ spawned' = t
           /\ mainPc' = IF t < nIterations THEN "spawn" ELSE "collect"
    /\ UNCHANGED <<roster, hook, nIterations, ps, combatants, idx, result,
                   resultsReceived, results, rng, rngUsers, lastAct,
                   killedInLevel, last, rerun,
                   dice, acted, seen>>

----------------------------------------------------------------------------
(* Match.Play and Match.PerformCombatRound, a step at a time. *)

\* for result == nil { result = match.PerformCombatRound(performAction) }
PlayLoop(t) ==
    /\ pc[t] \in {"start", "returned"}
    /\ IF result[t].isNil
       THEN /\ pc' = [pc EXCEPT ![t] = "level"]
            /\ ps' = [ps EXCEPT ![t] = TopSkill]
            /\ acted' = [acted EXCEPT ![t] = <<>>]
       ELSE /\ pc' = [pc EXCEPT ![t] = "send"]
            /\ ps' = ps
            /\ acted' = acted
    /\ UNCHANGED <<roster, hook, nIterations, ships, rebelList, empireList,
                   combatants, idx, result, mainPc, spawned, resultsReceived,
                   results, rng, rngUsers, lastAct, killedInLevel, last, rerun,
                   dice, seen>>

\* The head of the loop over ps, down to the next level that gathers a ship.
StartLevel(t) ==
    /\ pc[t] = "level"
    /\ LET level == NextLevel(ships[t], rebelList[t], empireList[t], ps[t])
           granted == GrantReroll(ships[t], empireList[t], level)
       IN  IF level < 0
           THEN /\ pc' = [pc EXCEPT ![t] = "count"]
                /\ ps' = [ps EXCEPT ![t] = -1]
                /\ UNCHANGED <<ships, combatants, idx>>
           ELSE /\ pc' = [pc EXCEPT ![t] = "fire"]
                /\ ps' = [ps EXCEPT ![t] = level]
                /\ ships' = [ships EXCEPT ![t] = granted]
                /\ combatants' = [combatants EXCEPT ![t] =
                       Gather(ships[t], rebelList[t], empireList[t], level)]
                /\ idx' = [idx EXCEPT ![t] = 1]
    /\ killedInLevel' = [killedInLevel EXCEPT ![t] = {}]
    /\ UNCHANGED <<roster, hook, nIterations, rebelList, empireList, result,
                   mainPc, spawned, resultsReceived, results, rng, rngUsers,
                   lastAct, last, rerun,
                   dice, acted, seen>>

\* The ships of the faction of ship id that provide the reroll.
AllGranters(structs, id) ==
    {g \in DOMAIN structs :
        /\ structs[g].faction = structs[id].faction
        /\ structs[g].providesHowlrunnerReroll}

\* Those of them that are not destroyed.
Granters(structs, id) ==
    {g \in AllGranters(structs, id) : ~structs[g].isDestroyed}

\* What the body of the loop over combatants does to ship id: the set of
\* [ship, target, r, info], with target 0 when no enemy survives.
Activation(structs, rebels, empire, kind, id, r) ==
    LET target == FirstSurvivor(structs, EnemyList(structs[id], rebels, empire), 1)
        actor == PerformAction(kind, structs[id])
    IN  IF target # 0
        THEN {[id |-> id, targetId |-> target, ship |-> o.ship,
               target |-> o.target, r |-> o.r, info |-> o.info] :
                  o \in Attack(actor, structs[target], target, r)}
        ELSE {[id |-> id, targetId |-> 0, ship |-> actor, target |-> actor,
               r |-> r, info |-> NoAttack.info]}

\* The structs after an activation.
Activated(structs, o) ==
    [i \in DOMAIN structs |->
        IF i = o.id THEN o.ship
        ELSE IF i = o.targetId THEN o.target
        ELSE structs[i]]

\* The activation o had a target and destroyed it.
Killed(structs, o) ==
    /\ o.targetId # 0
    /\ o.target.isDestroyed
    /\ ~structs[o.targetId].isDestroyed

\* One turn of the loop over combatants.
Activate(t) ==
    /\ pc[t] = "fire"
    /\ LET id == combatants[t][idx[t]]
       IN  /\ WithinTokens(hook, ships[t][id])
           /\ \E o \in Activation(ships[t], rebelList[t], empireList[t], hook, id,
                                  [st |-> rng, used |-> FALSE]) :
                 /\ ships' = [ships EXCEPT ![t] = Activated(ships[t], o)]
                 /\ rng' = o.r.st
                 /\ rngUsers' = IF o.r.used THEN rngUsers \cup {t} ELSE rngUsers
                 /\ lastAct' = [lastAct EXCEPT ![t] =
                        [ship |-> id, target |-> o.targetId,
                         wasDestroyed |-> ships[t][id].isDestroyed,
                         killedThisLevel |-> id \in killedInLevel[t],
                         level |-> ps[t],
                         squadReroll |-> o.info.branch \in {"b", "d"},
                         granterAlive |-> Granters(ships[t], id) # {},
                         granterAtGather |->
                             Granters(ships[t], id) \cup
                             (AllGranters(ships[t], id) \cap killedInLevel[t]) # {},
                         hadReroll |-> ships[t][id].hasHowlrunnerReroll,
                         provides |-> ships[t][id].providesHowlrunnerReroll]]
                 /\ killedInLevel' = [killedInLevel EXCEPT ![t] =
                        IF Killed(ships[t], o) THEN @ \cup {o.targetId} ELSE @]
                 /\ acted' = [acted EXCEPT ![t] =
                        Append(@, [id |-> id, level |-> ps[t],
                                   target |-> o.targetId,
                                   killed |-> Killed(ships[t], o)])]
    /\ IF idx[t] < Len(combatants[t])
       THEN /\ idx' = [idx EXCEPT ![t] = @ + 1]
            /\ UNCHANGED <<pc, ps>>
       ELSE /\ pc' = [pc EXCEPT ![t] = "level"]
            /\ ps' = [ps EXCEPT ![t] = @ - 1]
            /\ idx' = idx
    /\ UNCHANGED <<roster, hook, nIterations, rebelList, empireList, combatants,
                   result, mainPc, spawned, resultsReceived, results, last, rerun,
                   dice, seen>>

\* The count of the survivors and the return of PerformCombatRound.
CountSurvivors(t) ==
    /\ pc[t] = "count"
    /\ result' = [result EXCEPT ![t] =
           RoundResult(ships[t], rebelList[t], empireList[t])]
    /\ pc' = [pc EXCEPT ![t] = "returned"]
    /\ UNCHANGED <<roster, hook, nIterations, ships, rebelList, empireList, ps,
                   combatants, idx, mainPc, spawned, resultsReceived, results,
                   rng, rngUsers, lastAct, killedInLevel, last, rerun,
                   dice, acted, seen>>

----------------------------------------------------------------------------
(* The unbuffered channel: c <- *result in Play meets result = <-ch in main. *)

Tally(agg, winner) ==
    CASE winner = REBELS -> [agg EXCEPT !.rebelWins = @ + 1]
      [] winner = EMPIRE -> [agg EXCEPT !.empireWins = @ + 1]
      [] OTHER -> [agg EXCEPT !.draws = @ + 1]

Deliver(t) ==
    /\ pc[t] = "send"
    /\ mainPc = "collect"
    /\ resultsReceived < nIterations
    /\ resultsReceived' = resultsReceived + 1
    /\ results' = Tally(results, result[t].winner)
    /\ pc' = [pc EXCEPT ![t] = "done"]
    /\ UNCHANGED <<roster, hook, nIterations, ships, rebelList, empireList, ps,
                   combatants, idx, result, mainPc, spawned, rng, rngUsers,
                   lastAct, killedInLevel, last, rerun,
                   dice, acted, seen>>

\* Report with the loop ending one result early.
ReportEarly ==
    /\ mainPc = "collect"
    /\ resultsReceived >= nIterations - 1
    /\ mainPc' = "done"
    /\ UNCHANGED <<roster, hook, nIterations, ships, rebelList, empireList, pc,
                   ps, combatants, idx, result, spawned, resultsReceived,
                   results, rng, rngUsers, lastAct, killedInLevel, last, rerun,
                   dice, acted, seen>>

\* The loop over resultsReceived ends: fmt.Println(*results)
Report ==
    /\ mainPc = "collect"
    /\ resultsReceived >= nIterations
    /\ mainPc' = "done"
    /\ UNCHANGED <<roster, hook, nIterations, ships, rebelList, empireList, pc,
                   ps, combatants, idx, result, spawned, resultsReceived,
                   results, rng, rngUsers, lastAct, killedInLevel, last, rerun,
                   dice, acted, seen>>

TrialStep(t) ==
    \/ PlayLoop(t)
    \/ StartLevel(t)
    \/ Activate(t)
    \/ CountSurvivors(t)

Next ==
    \/ Spawn
    \/ \E t \in Trials : PlayLoop(t)
    \/ \E t \in Trials : StartLevel(t)
    \/ \E t \in Trials : Activate(t)
    \/ \E t \in Trials : CountSurvivors(t)
    \/ \E t \in Trials : Deliver(t)
    \/ Report

Spec == Init /\ [][Next]_vars

----------------------------------------------------------------------------
(* Properties of the round engine. *)

Range(seq) == {seq[i] : i \in 1 .. Len(seq)}

Survivors(t, faction) ==
    {id \in DOMAIN ships[t] :
        ships[t][id].faction = faction /\ ~ships[t][id].isDestroyed}

\* C1: whenever PerformCombatRound returns, every ship of both squadrons has
\* focusTokens = 0 and evadeTokens = 0.
C1_TokensResetAtRoundEnd ==
    \A t \in Trials :
        pc[t] = "returned" =>
            \A id \in DOMAIN ships[t] :
                ships[t][id].focusTokens = 0 /\ ships[t][id].evadeTokens = 0

\* C2, as stated: a ship whose isDestroyed flag is true never again has the
\* action hook invoked on it nor attacks, also not later in the level in
\* which it was destroyed.
C2_DestroyedNeverActs ==
    \A t \in Trials : lastAct[t].ship # 0 => ~lastAct[t].wasDestroyed

\* C2, amended: a ship that is activated while destroyed was destroyed since
\* the combatants of the current level were gathered; a ship destroyed before
\* a level begins is not activated at that level or after it.
C2_DestroyedActsOnlyInLevelOfDeath ==
    \A t \in Trials : lastAct[t].wasDestroyed => lastAct[t].killedThisLevel

\* A level has just been fired at which a ship of that skill, destroyed
\* before the level began, was left out.
C2_Witness ==
    \E t \in Trials :
        /\ pc[t] = "level"
        /\ lastAct[t].level = ps[t] + 1
        /\ \E id \in DOMAIN ships[t] :
              /\ ships[t][id].isDestroyed
              /\ ships[t][id].skill = lastAct[t].level
              /\ id \notin killedInLevel[t]
              /\ id \notin Range(combatants[t])

\* The step of trial t is a turn of the loop over combatants.
Fired(t) == pc[t] = "fire" /\ <<pc[t], idx[t]>>' # <<pc[t], idx[t]>>

TargetChosenWell(t) ==
    LET id == combatants[t][idx[t]]
        me == ships[t][id]
        foe == IF me.faction = REBELS THEN EMPIRE ELSE REBELS
        list == IF me.faction = REBELS THEN empireList[t] ELSE rebelList[t]
        tg == lastAct'[t].target
    IN  /\ lastAct'[t].ship = id
        /\ tg # 0 =>
              /\ ~ships[t][tg].isDestroyed
              /\ ships[t][tg].faction = foe
              /\ \E k \in 1 .. Len(list) :
                    /\ list[k] = tg
                    /\ \A j \in 1 .. (k - 1) : ships[t][list[j]].isDestroyed
              /\ \A other \in Survivors(t, foe) :
                    ships[t][other].skill <= ships[t][tg].skill
        /\ tg = 0 <=> Survivors(t, foe) = {}
        /\ tg = 0 =>
              /\ rng' = rng /\ rngUsers' = rngUsers
              /\ \A other \in DOMAIN ships[t] \ {id} :
                    ships'[t][other] = ships[t][other]
              /\ ships'[t][id].hull = me.hull /\ ships'[t][id].shields = me.shields

\* C3: the target of every Attack of a round is not destroyed, of the opposing
\* faction, the lowest-index survivor of the opposing squadron and of the
\* highest skill surviving there; without a survivor there is no Attack.
C3_TargetSelection == [][\A t \in Trials : Fired(t) => TargetChosenWell(t)]_vars

\* An Attack on a target that is not the head of its squadron.
C3_Witness ==
    \E t \in Trials :
        /\ lastAct[t].target # 0
        /\ lastAct[t].target \notin {Head(rebelList[t]), Head(empireList[t])}

C14_GranterAliveAtAttack ==
    \A t \in Trials : lastAct[t].squadReroll => lastAct[t].granterAlive

\* C14, amended: whenever a ship rerolls one die on the squad bonus, a ship
\* of its faction that provides the bonus was not destroyed when the
\* combatants of the current priority level were gathered.
C14_GranterAliveAtGather ==
    \A t \in Trials : lastAct[t].squadReroll => lastAct[t].granterAtGather

\* A squad reroll with the granter alive, after a ship has been destroyed.
C14_Witness ==
    \E t \in Trials :
        /\ lastAct[t].squadReroll
        /\ lastAct[t].granterAlive
        /\ \E id \in DOMAIN ships[t] : ships[t][id].isDestroyed

\* A step lowers or keeps the hull and the shields of every ship of trial t,
\* and keeps every isDestroyed that is true.
DamageStays(t) ==
    \A id \in DOMAIN ships[t] :
        /\ ships'[t][id].hull <= ships[t][id].hull
        /\ ships'[t][id].shields <= ships[t][id].shields
        /\ ships[t][id].isDestroyed => ships'[t][id].isDestroyed

\* Between attacks a ship is destroyed exactly when its hull is below 1.
DestroyedExact ==
    \A t \in Trials : \A id \in DOMAIN ships[t] :
        ships[t][id].isDestroyed <=> ships[t][id].hull < 1

\* C13: in a trial no hull and no shields ever increase, no isDestroyed goes
\* back from true to false, and between attacks a ship (created with hull
\* >= 1) is destroyed exactly when its hull is below 1.
C13_DamagePermanent ==
    /\ []DestroyedExact
    /\ [][\A t \in Trials : DamageStays(t)]_vars

\* One ship has lost its shields and a hull point and lives; another was
\* taken below hull 0 and is destroyed.
C13_Witness ==
    \E t \in Trials : \E a, b \in DOMAIN ships[t] :
        /\ ships[t][a].isDestroyed /\ ships[t][a].hull < 0
        /\ ~ships[t][b].isDestroyed
        /\ ships[t][b].shields = 0
        /\ ships[t][b].hull = 1
        /\ roster.rebels[1].shields = 1 /\ Len(roster.rebels) = 1

\* The activations of the current round that had a target: its attacks,
\* in the order they were made.
Attacks(t) == SelectSeq(acted[t], LAMBDA e : e.target # 0)

\* C19: within a round the attacks are made in non-increasing order of the
\* attacker's skill, and among the attackers of one skill no imperial
\* attacks before a rebel: the rebels of the level first, then the
\* imperials.
C19_ActivationOrder ==
    \A t \in Trials :
        LET a == Attacks(t)
        IN  \A i, j \in DOMAIN a :
                i < j =>
                    /\ ships[t][a[i].id].skill >= ships[t][a[j].id].skill
                    /\ ships[t][a[i].id].skill = ships[t][a[j].id].skill
                           => ~(/\ ships[t][a[i].id].faction = EMPIRE
                                /\ ships[t][a[j].id].faction = REBELS)

\* A round in which a rebel and then an imperial of one skill attacked, and
\* after them a ship of a lower skill.
C19_Witness ==
    \E t \in Trials :
        LET a == Attacks(t)
        IN  /\ Len(a) >= 3
            /\ ships[t][a[1].id].faction = REBELS
            /\ ships[t][a[2].id].faction = EMPIRE
            /\ ships[t][a[1].id].skill = ships[t][a[2].id].skill
            /\ ships[t][a[3].id].skill < ships[t][a[2].id].skill

\* C23: in every state of a match every ship has focusTokens >= 0,
\* evadeTokens >= 0 and shields >= 0: no token is spent that the ship does
\* not hold, and damage stops at the shields the ship has.
C23_TokensAndShieldsNonNegative ==
    \A t \in Trials : \A id \in DOMAIN ships[t] :
        /\ ships[t][id].focusTokens >= 0
        /\ ships[t][id].evadeTokens >= 0
        /\ ships[t][id].shields >= 0

\* With the focus hook, a ship activated in this round holds no focus token
\* (it has spent what it held), and a ship built with a shield has lost it
\* and hull besides: the damage went on past shields 0.
C23_Witness ==
    \E t \in Trials :
        /\ hook = "focus"
        /\ \E i \in DOMAIN acted[t] : ships[t][acted[t][i].id].focusTokens = 0
        /\ \E id \in DOMAIN ships[t] :
               /\ RosterShips(roster)[id].shields > 0
               /\ ships[t][id].shields = 0
               /\ ships[t][id].hull < RosterShips(roster)[id].hull

\* The activations of the current round that destroyed a ship of faction.
KillsOf(t, faction) ==
    {i \in DOMAIN acted[t] :
        acted[t][i].killed /\ ships[t][acted[t][i].target].faction = faction}

\* The greatest member of a non-empty set of numbers.
Last(S) == CHOOSE i \in S : \A k \in S : k <= i

\* The match of trial t has ended in a draw.
Drawn(t) ==
    /\ pc[t] \in {"returned", "send", "done"}
    /\ ~result[t].isNil
    /\ result[t].winner = NEITHER

\* C24: when a match ends in a draw, in its final round the last imperial
\* and the last rebel were both destroyed by attacks of one priority level,
\* the imperial first, and the rebel by an imperial that had been gathered
\* for that level before an attack of the level destroyed it.
C24_DrawIsMutualDestruction ==
    \A t \in Trials :
        Drawn(t) =>
            /\ KillsOf(t, EMPIRE) # {}
            /\ KillsOf(t, REBELS) # {}
            /\ LET i == Last(KillsOf(t, EMPIRE))
                   j == Last(KillsOf(t, REBELS))
                   by == acted[t][j].id
               IN  /\ i < j
                   /\ acted[t][i].level = acted[t][j].level
                   /\ ships[t][acted[t][i].id].faction = REBELS
                   /\ ships[t][by].faction = EMPIRE
                   /\ ships[t][by].skill = acted[t][j].level
                   /\ \E k \in KillsOf(t, EMPIRE) :
                          /\ k < j
                          /\ acted[t][k].target = by
                          /\ acted[t][k].level = acted[t][j].level

\* A draw of two ships a side.
C24_Witness ==
    \E t \in Trials :
        /\ Drawn(t)
        /\ Len(rebelList[t]) = 2
        /\ Len(empireList[t]) = 2

\* A roster in which each squadron has a ship that provides the reroll, at
\* skill 8, and one that does not, at skill 7.
SquadRosters ==
    {[rebels |-> <<NewShip(REBELS, 7, 2, 0, 1, 0, FALSE),
                   NewShip(REBELS, 8, 1, 0, 1, 1, TRUE)>>,
      empire |-> <<NewShip(EMPIRE, 7, 2, 0, 1, 0, FALSE),
                   NewShip(EMPIRE, 8, 1, 1, 1, 0, TRUE)>>]}

SquadInit == InitWith(SquadRosters, HookKinds, 1, {UnknownRng})

SquadSpec == SquadInit /\ [][Next]_vars

\* The last activation of trial t was an attack by a ship that does not
\* provide the reroll.
NonGranterAttacked(t) ==
    /\ lastAct[t].ship # 0
    /\ lastAct[t].target # 0
    /\ ~lastAct[t].provides

OrderRosters ==
    {r \in Rosters : Len(r.rebels) = 2}
        \cup {[rebels |-> <<NewShip(REBELS, TopSkill + 1, 1, 0, 2, 0, FALSE)>>,
                empire |-> <<NewShip(EMPIRE, 8, 1, 0, 1, 0, FALSE),
                             NewShip(EMPIRE, -1, 1, 0, 1, 0, FALSE)>>]}

OrderInit == InitWith(OrderRosters, HookKinds, 1, {UnknownRng})

OrderSpec == OrderInit /\ [][Next]_vars

\* How many times ship id was activated in the current round, and how many
\* of these activations were attacks.
Activations(t, id) ==
    Cardinality({i \in DOMAIN acted[t] : acted[t][i].id = id})

AttacksBy(t, id) ==
    Cardinality({i \in DOMAIN acted[t] :
                    acted[t][i].id = id /\ acted[t][i].target # 0})

\* The levels the loop counts through: ps from 12 down to 0.
LevelsIterated == 0 .. TopSkill

\* Ship id was not destroyed when the round reached its level: it is not
\* destroyed now or was destroyed in this round, and then not in a level
\* above its own.
AliveAtLevelStart(t, id) ==
    LET kills == {i \in DOMAIN acted[t] :
                     acted[t][i].killed /\ acted[t][i].target = id}
    IN  /\ ships[t][id].isDestroyed => kills # {}
        /\ \A i \in kills : acted[t][i].level <= ships[t][id].skill

\* The loop over the levels of a round has ended.
RoundOver(t) == pc[t] = "count"

----------------------------------------------------------------------------
(* Ship.Attack on its own: ship 1 attacks ship 2 once, the fields that     *)
(* Attack reads drawn from bounded sets; ship 3 is a ship that is not the  *)
(* target.                                                                 *)

Attackers ==
    {[NewShip(REBELS, 8, MaxDice, 0, 1, 0, FALSE) EXCEPT
          !.focusTokens = f, !.lockedOnto = l, !.hasHowlrunnerReroll = h] :
        f \in {0, MaxTokens}, l \in {0, 2, 3}, h \in BOOLEAN}

Defenders ==
    {[NewShip(EMPIRE, 8, 1, d, hu, sh, FALSE) EXCEPT
          !.focusTokens = f, !.evadeTokens = e] :
        d \in {0, MaxDice - 1}, hu \in {1, MaxDice - 1}, sh \in {0, 1, MaxDice - 1},
        f \in {0, MaxTokens}, e \in {0, 1, MaxTokens}}

InitAttack ==
    /\ roster = [rebels |-> <<>>, empire |-> <<>>]
    /\ hook = "none"
    /\ nIterations = 1
    /\ \E a \in Attackers, d \in Defenders :
          ships = <<<<a, d, NewShip(EMPIRE, 8, 1, 1, 1, 0, FALSE)>>>>
    /\ rebelList = <<<<1>>>>
    /\ empireList = <<<<2, 3>>>>
    /\ pc = <<"harness">>
    /\ ps = <<TopSkill>>
    /\ combatants = <<<<>>>>
    /\ idx = <<1>>
    /\ result = <<NilResult>>
    /\ mainPc = "harness"
    /\ spawned = 0
    /\ resultsReceived = 0
    /\ results = NoResults
    /\ rng = UnknownRng
    /\ rngUsers = {}
    /\ lastAct = <<NoAct>>
    /\ killedInLevel = <<{}>>
    /\ last = NoAttack
    /\ rerun = [run |-> 1, seed |-> rng, first |-> NoResults]
    /\ dice = NoDiceOp
    /\ acted = [t \in 1 .. nIterations |-> <<>>]
    /\ seen = {}

\* ships[1][1].Attack(ships[1][2])
AttackOnce ==
    /\ pc[1] = "harness"
    /\ \E o \in Attack(ships[1][1], ships[1][2], 2, [st |-> rng, used |-> FALSE]) :
          /\ ships' = [ships EXCEPT ![1][1] = o.ship, ![1][2] = o.target]
          /\ rng' = o.r.st
          /\ last' = [attacker |-> 1, defender |-> 2, before |-> ships[1],
                      info |-> o.info]
    /\ pc' = [pc EXCEPT ![1] = "attacked"]
    /\ UNCHANGED <<roster, hook, nIterations, rebelList, empireList, ps,
                   combatants, idx, result, mainPc, spawned, resultsReceived,
                   results, rngUsers, lastAct, killedInLevel, rerun,
                   dice, acted, seen>>

AttackSpec == InitAttack /\ [][AttackOnce]_vars

----------------------------------------------------------------------------
(* Properties of Attack. *)

Attacked == last.attacker # 0

DefenderBefore == last.before[last.defender]

DefenderAfter == ships[1][last.defender]

\* C9: when the final evades e are fewer than the final hits h plus crits c,
\* the damage is h - min(h, e) hits and c - min(c, e - min(h, e)) crits, and
\* a crit is cancelled only when every hit is.
C9_HitsCancelledBeforeCrits ==
    (Attacked /\ last.info.evades < last.info.totalHits) =>
        LET h == last.info.final.hits
            c == last.info.final.crits
            e == last.info.evades
        IN  /\ last.info.evadedBy = "none"
            /\ last.info.damage.hits = h - Min(h, e)
            /\ last.info.damage.crits = c - Min(c, e - Min(h, e))
            /\ last.info.damage.crits < c => last.info.damage.hits = 0
            /\ last.info.shieldHits + last.info.hullHits = last.info.damage.hits
            /\ last.info.shieldCrits + last.info.hullCrits = last.info.damage.crits

\* Two hits and a crit met two evades: the crit alone is left.
C9_Witness ==
    /\ Attacked
    /\ last.info.final.hits = 2 /\ last.info.final.crits = 1
    /\ last.info.evades = 2
    /\ last.info.damage.hits = 0 /\ last.info.damage.crits = 1

\* C10: the uncancelled hits, then the uncancelled crits, are taken from the
\* shields as far as the shields go, and only the rest from the hull: the
\* hull decreases only in an attack that leaves the shields at 0.
C10_ShieldsBeforeHull ==
    Attacked =>
        LET dh == last.info.damage.hits
            dc == last.info.damage.crits
            s0 == DefenderBefore.shields
            lostShields == s0 - DefenderAfter.shields
            lostHull == DefenderBefore.hull - DefenderAfter.hull
        IN  /\ last.info.shieldHits = Min(dh, s0)
            /\ last.info.shieldCrits = Min(dc, s0 - last.info.shieldHits)
            /\ lostShields = Min(s0, dh + dc)
            /\ lostShields = last.info.shieldHits + last.info.shieldCrits
            /\ lostHull = (dh + dc - lostShields) + last.info.directHits
            /\ last.info.directHits <= dc - last.info.shieldCrits
            /\ lostHull > 0 => DefenderAfter.shields = 0

\* Two shields took three hits: both shields and one hull point are lost.
C10_Witness ==
    /\ Attacked
    /\ last.info.damage.hits = 3 /\ last.info.damage.crits = 0
    /\ DefenderBefore.shields = 2 /\ DefenderAfter.shields = 0
    /\ DefenderBefore.hull - DefenderAfter.hull = 1

\* The fields of the defender that an attack can change.
DefenderFields(ship) ==
    [hull |-> ship.hull, shields |-> ship.shields,
     focusTokens |-> ship.focusTokens, evadeTokens |-> ship.evadeTokens,
     isDestroyed |-> ship.isDestroyed]

\* C11: when the evades the defender rolled, before any token is spent, are
\* at least the attacker's final hits plus crits, the resolution ends there:
\* the defender's hull, shields, focusTokens, evadeTokens and isDestroyed are
\* as before the attack.
C11_NaturalEvasion ==
    (Attacked /\ last.info.rolledEvades >= last.info.totalHits) =>
        /\ last.info.evadedBy = "natural"
        /\ ~last.info.defenseBurned
        /\ last.info.evadesAdded = 0
        /\ DefenderFields(DefenderAfter) = DefenderFields(DefenderBefore)

\* A defender holding focus and evade tokens rolled as many evades as the
\* attacker had hits, and there was a hit.
C11_Witness ==
    /\ Attacked
    /\ last.info.totalHits >= 1
    /\ last.info.rolledEvades >= last.info.totalHits
    /\ DefenderBefore.focusTokens > 0
    /\ DefenderBefore.evadeTokens > 0
    /\ DefenderFields(DefenderAfter) = DefenderFields(DefenderBefore)

\* C16: in every attack the evadeTokens of the defender go down by the number
\* of evade results that the spending of evade tokens added.
C16_EvadeTokensAccounted ==
    Attacked =>
        DefenderBefore.evadeTokens - DefenderAfter.evadeTokens
            = last.info.evadesAdded

\* The evades of the defender after the focus step, before any evade token.
EvadesAfterFocus == last.info.evades - last.info.evadesAdded

\* C17, as stated: no Attack both takes a focus token from the defender and
\* adds evades from its evade tokens.
C17_DefenderBranchesExclusive ==
    Attacked => ~(last.info.defenseBurned /\ last.info.evadesAdded > 0)

\* C17, amended: the defender's steps follow one another.  A focus token is
\* spent exactly when the rolled evades are fewer than the hits and the
\* defender holds a token and rolled a focus; evade tokens are spent exactly
\* when the evades after that step are still fewer than the hits and the
\* defender holds an evade token, whether a focus token was spent or not.
C17_DefenderStepsInSequence ==
    Attacked =>
        /\ last.info.defenseBurned =>
              /\ last.info.rolledEvades < last.info.totalHits
              /\ DefenderBefore.focusTokens > 0
              /\ EvadesAfterFocus > last.info.rolledEvades
        /\ ~last.info.defenseBurned => EvadesAfterFocus = last.info.rolledEvades
        /\ last.info.evadesAdded > 0 <=>
              /\ EvadesAfterFocus < last.info.totalHits
              /\ DefenderBefore.evadeTokens > 0
        /\ last.info.evadesAdded <= DefenderBefore.evadeTokens

\* The defender spent a focus token and then an evade token, and with the
\* two evaded the attack.
C17_Witness ==
    /\ Attacked
    /\ last.info.defenseBurned
    /\ last.info.evadesAdded = 1
    /\ last.info.evadedBy = "evade"

\* C18: in one Attack the attacker loses exactly one focus token when it
\* holds one and its tally after the reroll has a focus, every focus then
\* becoming a hit, and none otherwise; the defender loses at most one, every
\* defense focus becoming an evade.
C18_FocusSingleUse ==
    Attacked =>
        LET a0 == last.before[last.attacker].focusTokens
            a1 == ships[1][last.attacker].focusTokens
            d0 == DefenderBefore.focusTokens
            d1 == DefenderAfter.focusTokens
        IN  /\ a0 - a1 = IF last.info.attackBurned THEN 1 ELSE 0
            /\ last.info.attackBurned <=> (a0 >= 1 /\ last.info.focusesSpent >= 1)
            /\ last.info.focusesSpent <= last.info.final.hits
            /\ a0 >= 1 => last.info.final.focuses = 0
            /\ d0 - d1 = IF last.info.defenseBurned THEN 1 ELSE 0

\* An attacker with two tokens turned two focuses into hits for one token,
\* and the defender spent one of its two tokens as well.
C18_Witness ==
    /\ Attacked
    /\ last.info.attackBurned
    /\ last.info.focusesSpent = 2
    /\ last.before[last.attacker].focusTokens = 2
    /\ ships[1][last.attacker].focusTokens = 1
    /\ last.info.defenseBurned
    /\ DefenderBefore.focusTokens = 2
    /\ DefenderAfter.focusTokens = 1

\* The fields in which the structs before and after differ.
ChangedFields(before, after) == {f \in DOMAIN before : before[f] # after[f]}

\* C25: an Attack changes at most the attacker's focusTokens and lockedOnto
\* and the defender's focusTokens, evadeTokens, shields, hull and
\* isDestroyed; every other field of the two ships, and every field of a
\* third ship, is as before.
C25_AttackFrame ==
    Attacked =>
        /\ ChangedFields(last.before[last.attacker], ships[1][last.attacker])
               \subseteq {"focusTokens", "lockedOnto"}
        /\ ChangedFields(DefenderBefore, DefenderAfter)
               \subseteq {"focusTokens", "evadeTokens", "shields", "hull",
                           "isDestroyed"}
        /\ \A id \in DOMAIN ships[1] \ {last.attacker, last.defender} :
               ships[1][id] = last.before[id]

\* An attacker holding the squad reroll spent its lock and a focus token,
\* and the defender spent a focus token and an evade token, lost hull and
\* was destroyed.
C25_Witness ==
    /\ Attacked
    /\ last.before[last.attacker].hasHowlrunnerReroll
    /\ ChangedFields(last.before[last.attacker], ships[1][last.attacker])
           = {"focusTokens", "lockedOnto"}
    /\ {"focusTokens", "evadeTokens", "hull", "isDestroyed"}
           \subseteq ChangedFields(DefenderBefore, DefenderAfter)

\* The final hits plus crits of the latest attack less the final evades.
Uncancelled == last.info.totalHits - last.info.evades

\* C26: in an attack with d = (final hits + final crits) - final evades > 0
\* the shields and the hull the defender loses are together at least d and
\* at most d plus the crits that reached the hull; they are d plus the
\* direct hits among those crits, a direct hit costing one hull point more;
\* and no more shields are lost than the defender had.
C26_DamageAccounting ==
    (Attacked /\ Uncancelled > 0) =>
        LET lostShields == DefenderBefore.shields - DefenderAfter.shields
            lostHull == DefenderBefore.hull - DefenderAfter.hull
        IN  /\ lostShields + lostHull >= Uncancelled
            /\ lostShields + lostHull <= Uncancelled + last.info.hullCrits
            /\ lostShields + lostHull = Uncancelled + last.info.directHits
            /\ last.info.directHits <= last.info.hullCrits
            /\ lostShields >= 0
            /\ lostShields <= DefenderBefore.shields

\* Two crits were left after one evade and met one shield: the shield took
\* one, the other was a direct hit on the hull, three points lost for d = 2.
C26_Witness ==
    /\ Attacked
    /\ last.info.evades = 1
    /\ Uncancelled = 2
    /\ last.info.shieldCrits = 1
    /\ last.info.hullCrits = 1
    /\ last.info.directHits = 1
    /\ DefenderBefore.shields - DefenderAfter.shields = 1
    /\ DefenderBefore.hull - DefenderAfter.hull = 2

----------------------------------------------------------------------------
(* The operations on a DiceResults, each by itself: a tally is drawn or    *)
(* rolled, and then rerolled and spent in any order.                       *)

\* hits + crits + evades + focuses + blanks
Total(res) == res.hits + res.crits + res.evades + res.focuses + res.blanks

\* The tallies of at most MaxDice dice.
Tallies ==
    {res \in [hits : 0 .. MaxDice, crits : 0 .. MaxDice, evades : 0 .. MaxDice,
              focuses : 0 .. MaxDice, blanks : 0 .. MaxDice] :
        Total(res) <= MaxDice}

RollFuncs == {"attack", "defense"}

InitDice ==
    /\ roster = [rebels |-> <<>>, empire |-> <<>>]
    /\ hook = "none"
    /\ nIterations = 1
    /\ ships = <<<<>>>>
    /\ rebelList = <<<<>>>>
    /\ empireList = <<<<>>>>
    /\ pc = <<"dice">>
    /\ ps = <<TopSkill>>
    /\ combatants = <<<<>>>>
    /\ idx = <<1>>
    /\ result = <<NilResult>>
    /\ mainPc = "harness"
    /\ spawned = 0
    /\ resultsReceived = 0
    /\ results = NoResults
    /\ rng = UnknownRng
    /\ rngUsers = {}
    /\ lastAct = <<NoAct>>
    /\ killedInLevel = <<{}>>
    /\ last = NoAttack
    /\ rerun = [run |-> 1, seed |-> rng, first |-> NoResults]
    /\ \E res \in Tallies :
          dice = [op |-> "none", numDice |-> Total(res), before |-> res,
                  results |-> res]
    /\ acted = <<<<>>>>
    /\ seen = {}

\* An operation on dice.results has returned one of `outcomes`, a set of
\* <<DiceResults, generator>>.
DiceStep(op, numDice, outcomes) ==
    /\ pc[1] = "dice"
    /\ \E o \in outcomes :
          /\ dice' = [op |-> op, numDice |-> numDice, before |-> dice.results,
                      results |-> o[1]]
          /\ rng' = o[2].st
    /\ UNCHANGED <<roster, hook, nIterations, ships, rebelList, empireList, pc,
                   ps, combatants, idx, result, mainPc, spawned,
                   resultsReceived, results, rngUsers, lastAct, killedInLevel,
                   last, rerun, acted, seen>>

Generator == [st |-> rng, used |-> FALSE]

\* results = Roll(n, rollfunc)
DoRoll ==
    \E n \in 0 .. MaxDice, f \in RollFuncs :
        DiceStep("Roll", n, Roll(n, f, Generator))

DoRerollBlanks ==
    \E f \in RollFuncs :
        DiceStep("RerollBlanks", dice.numDice,
                 RerollBlanks(dice.results, f, Generator))

DoRerollOneBlank ==
    \E f \in RollFuncs :
        DiceStep("RerollOneBlank", dice.numDice,
                 RerollOneBlank(dice.results, f, Generator))

DoRerollBlanksAndFocuses ==
    \E f \in RollFuncs :
        DiceStep("RerollBlanksAndFocuses", dice.numDice,
                 RerollBlanksAndFocuses(dice.results, f, Generator))

DoRerollOneBlankOrFocus ==
    \E f \in RollFuncs :
        DiceStep("RerollOneBlankOrFocus", dice.numDice,
                 RerollOneBlankOrFocus(dice.results, f, Generator))

\* The two arguments Attack passes to SpendFocus.
DoSpendFocus ==
    \E onWhat \in RollFuncs :
        DiceStep("SpendFocus", dice.numDice,
                 {<<SpendFocus(dice.results, onWhat), Generator>>})

DiceNext ==
    \/ DoRoll
    \/ DoRerollBlanks
    \/ DoRerollOneBlank
    \/ DoRerollBlanksAndFocuses
    \/ DoRerollOneBlankOrFocus
    \/ DoSpendFocus

DiceSpec == InitDice /\ [][DiceNext]_vars

\* C12: the tally Roll(n, die) returns has hits + crits + evades + focuses +
\* blanks = n, and every reroll and SpendFocus leaves that sum as it was.
C12_DiceConserved ==
    /\ Total(dice.results) = dice.numDice
    /\ dice.op \notin {"none", "Roll"} => Total(dice.results) = Total(dice.before)

\* A reroll of blanks and focuses has replaced dice of both kinds by others.
C12_Witness ==
    /\ dice.op = "RerollBlanksAndFocuses"
    /\ dice.before.blanks > 0
    /\ dice.before.focuses > 0
    /\ dice.results.blanks + dice.results.focuses < dice.before.blanks + dice.before.focuses
    /\ Total(dice.results) = Total(dice.before)

----------------------------------------------------------------------------
(* One die by itself: AttackDie() and DefenseDie() are called again and    *)
(* again, and every face drawn is kept with the DieResult returned for it. *)

InitDie == InitDice /\ dice = NoDiceOp

\* One call of a die function has drawn d = <<value of rand.Int31n(8),
\* generator>> and returned dieResult.
DieStep(rollfunc, d, dieResult) ==
    /\ pc[1] = "dice"
    /\ seen' = seen \cup {[rollfunc |-> rollfunc, face |-> Uint8(d[1]),
                            result |-> dieResult]}
    /\ rng' = d[2].st
    /\ UNCHANGED <<roster, hook, nIterations, ships, rebelList, empireList, pc,
                   ps, combatants, idx, result, mainPc, spawned,
                   resultsReceived, results, rngUsers, lastAct, killedInLevel,
                   last, rerun, dice, acted>>

DoAttackDie ==
    \E d \in RandInt31n(DieFaces, Generator) :
        DieStep("attack", d, AttackDieFace(d[1]))

DoDefenseDie ==
    \E d \in RandInt31n(DieFaces, Generator) :
        DieStep("defense", d, DefenseDieFace(d[1]))

DieNext == DoAttackDie \/ DoDefenseDie

DieSpec == InitDie /\ [][DieNext]_vars

\* The faces seen so far for which rollfunc returned dieResult.
FacesGiving(rollfunc, dieResult) ==
    {s.face : s \in {x \in seen : x.rollfunc = rollfunc /\ x.result = dieResult}}

\* Every face of the die has been drawn with rollfunc.
AllFacesSeen(rollfunc) ==
    {s.face : s \in {x \in seen : x.rollfunc = rollfunc}} = 0 .. (DieFaces - 1)

\* C22: of the 8 faces 0..7, AttackDie returns BLANK for exactly 2, FOCUS for
\* 2, HIT for 3, CRIT for 1 and EVADE for none; DefenseDie returns BLANK for
\* exactly 3, FOCUS for 2, EVADE for 3 and HIT or CRIT for none. No face
\* gives two results.
C22_DieFaceMapping ==
    /\ \A s \in seen : s.face \in 0 .. (DieFaces - 1)
    /\ \A s, u \in seen :
           s.rollfunc = u.rollfunc /\ s.face = u.face => s.result = u.result
    /\ FacesGiving("attack", EVADE) = {}
    /\ FacesGiving("defense", HIT) = {}
    /\ FacesGiving("defense", CRIT) = {}
    /\ AllFacesSeen("attack") =>
           /\ Cardinality(FacesGiving("attack", BLANK)) = 2
           /\ Cardinality(FacesGiving("attack", FOCUS)) = 2
           /\ Cardinality(FacesGiving("attack", HIT)) = 3
           /\ Cardinality(FacesGiving("attack", CRIT)) = 1
    /\ AllFacesSeen("defense") =>
           /\ Cardinality(FacesGiving("defense", BLANK)) = 3
           /\ Cardinality(FacesGiving("defense", FOCUS)) = 2
           /\ Cardinality(FacesGiving("defense", EVADE)) = 3

\* Every face of both dice has been drawn.
C22_Witness == AllFacesSeen("attack") /\ AllFacesSeen("defense")

----------------------------------------------------------------------------
(* The reroll decision of Attack by itself: an attacker (ship 1) and the   *)
(* tally of its attack roll are drawn, the defender being ship 2.          *)

RerollAttackers ==
    {[NewShip(REBELS, 8, MaxDice, 0, 1, 0, FALSE) EXCEPT
          !.focusTokens = f, !.lockedOnto = l, !.hasHowlrunnerReroll = h] :
        f \in {0, 1, MaxTokens}, l \in {0, 2, 3}, h \in BOOLEAN}

\* The tallies an attack roll can give.
AttackTallies == {res \in Tallies : res.evades = 0}

InitReroll ==
    /\ roster = [rebels |-> <<>>, empire |-> <<>>]
    /\ hook = "none"
    /\ nIterations = 1
    /\ \E a \in RerollAttackers : ships = <<<<a>>>>
    /\ rebelList = <<<<1>>>>
    /\ empireList = <<<<>>>>
    /\ pc = <<"reroll">>
    /\ ps = <<TopSkill>>
    /\ combatants = <<<<>>>>
    /\ idx = <<1>>
    /\ result = <<NilResult>>
    /\ mainPc = "harness"
    /\ spawned = 0
    /\ resultsReceived = 0
    /\ results = NoResults
    /\ rng = UnknownRng
    /\ rngUsers = {}
    /\ lastAct = <<NoAct>>
    /\ killedInLevel = <<{}>>
    /\ last = NoAttack
    /\ rerun = [run |-> 1, seed |-> rng, first |-> NoResults]
    /\ \E res \in AttackTallies :
          dice = [op |-> "none", numDice |-> Total(res), before |-> res,
                  results |-> res]
    /\ acted = <<<<>>>>
    /\ seen = {}

\* Lines 201-224 of Attack, applied to dice.results.
DoAttackReroll ==
    /\ pc[1] = "reroll"
    /\ \E o \in AttackReroll(ships[1][1], 2, dice.results, Generator) :
          /\ ships' = <<<<o.ship>>>>
          /\ dice' = [op |-> o.branch, numDice |-> dice.numDice,
                      before |-> dice.results, results |-> o.res]
          /\ rng' = o.r.st
    /\ last' = [attacker |-> 1, defender |-> 2, before |-> ships[1],
                info |-> NoAttack.info]
    /\ pc' = <<"rerolled">>
    /\ UNCHANGED <<roster, hook, nIterations, rebelList, empireList, ps,
                   combatants, idx, result, mainPc, spawned, resultsReceived,
                   results, rngUsers, lastAct, killedInLevel, rerun, acted, seen>>

RerollSpec == InitReroll /\ [][DoAttackReroll]_vars

\* The case of the claim that applies to attacker sh with tally res, the
\* defender being ship 2: the first of a, b, c, d whose condition holds.
ClaimedBranch(sh, res) ==
    IF sh.focusTokens = 0 /\ res.blanks > 0 /\ sh.lockedOnto = 2 THEN "a"
    ELSE IF /\ sh.focusTokens = 0
            /\ (res.blanks > 0 \/ res.focuses > 0)
            /\ sh.hasHowlrunnerReroll THEN "b"
    ELSE IF sh.focusTokens >= 1 /\ res.blanks > 0 /\ sh.lockedOnto = 2 THEN "c"
    ELSE IF sh.focusTokens >= 1 /\ res.blanks > 0 /\ sh.hasHowlrunnerReroll
    THEN "d"
    ELSE "none"

\* The dice that show a result in out which they did not show in res.
NewDice(res, out) ==
    LET more(a, b) == IF a > b THEN a - b ELSE 0
    IN  more(out.hits, res.hits) + more(out.crits, res.crits)
        + more(out.evades, res.evades) + more(out.focuses, res.focuses)
        + more(out.blanks, res.blanks)

\* C15: Attack applies at most one reroll to the attack tally, the first of
\* (a) no token, blanks, lock on the defender: all blanks and focuses;
\* (b) no token, blanks or focuses, squad bonus: one die, a blank if any;
\* (c) a token, blanks, lock on the defender: all blanks; (d) a token,
\* blanks, squad bonus: one blank.  The lock is cleared in (a) and (c) only.
C15_RerollDecision ==
    pc[1] = "rerolled" =>
        LET sh == last.before[1]
            res == dice.before
            out == dice.results
            branch == ClaimedBranch(sh, res)
        IN  /\ dice.op = branch
            /\ Total(out) = Total(res)
            /\ out.hits >= res.hits /\ out.crits >= res.crits
            /\ out.evades = res.evades
            /\ branch = "a" => NewDice(res, out) <= res.blanks + res.focuses
            /\ branch = "b" =>
                  /\ NewDice(res, out) <= 1
                  /\ out.blanks + out.focuses >= res.blanks + res.focuses - 1
                  /\ res.blanks > 0 => out.focuses >= res.focuses
            /\ branch = "c" =>
                  /\ out.focuses >= res.focuses
                  /\ NewDice(res, out) <= res.blanks
            /\ branch = "d" =>
                  /\ out.focuses >= res.focuses
                  /\ out.blanks >= res.blanks - 1
                  /\ NewDice(res, out) <= 1
            /\ branch = "none" => out = res
            /\ ships[1][1] =
                  [sh EXCEPT !.lockedOnto =
                       IF branch \in {"a", "c"} THEN 0 ELSE sh.lockedOnto]

\* Case (b) with a blank and a focus in the tally and a lock on another
\* ship: the blank became a hit, the focus and the lock are as they were.
C15_Witness ==
    /\ pc[1] = "rerolled"
    /\ dice.op = "b"
    /\ dice.before.blanks = 1 /\ dice.before.focuses = 1
    /\ dice.results.blanks = 0 /\ dice.results.focuses = 1
    /\ dice.results.hits = dice.before.hits + 1
    /\ last.before[1].lockedOnto = 3
    /\ ships[1][1].lockedOnto = 3

----------------------------------------------------------------------------
(* The trial driver: the goroutines and main under a fair scheduler, every *)
(* goroutine that can take a step taking one in the end.                   *)

\* Activate(t) can be taken.
FireEnabled(t) ==
    /\ pc[t] = "fire"
    /\ WithinTokens(hook, ships[t][combatants[t][idx[t]]])

\* Weak fairness of every step of main and of the first n goroutines.  The
\* last conjunct is WF_vars(Activate(t)) written out: Activate(t) is enabled
\* exactly where FireEnabled(t) holds, and the steps of Activate(t) are the
\* steps Fired(t).
Fairness(n) ==
    /\ WF_vars(Spawn)
    /\ WF_vars(Report)
    /\ \A t \in 1 .. n :
          /\ WF_vars(PlayLoop(t))
          /\ WF_vars(StartLevel(t))
          /\ WF_vars(CountSurvivors(t))
          /\ WF_vars(Deliver(t))
          /\ []<>(~FireEnabled(t)) \/ []<><<Fired(t)>>_vars

DriverInit == InitWith(DriverRosters, DriverHooks, NTrials, {UnknownRng})

DriverSpec == DriverInit /\ [][Next]_vars /\ Fairness(NTrials)

\* One match of the duel.
DuelInit == InitWith(DuelRosters, HookKinds, 1, {UnknownRng})

DuelSpec == DuelInit /\ [][Next]_vars /\ Fairness(1)

\* The hook would take the ship about to act past MaxTokens: the model
\* follows the match no further.
TokensAtBound(t) == pc[t] = "fire" /\ ~FireEnabled(t)

\* C4: every match leaves its round loop and sends its result, whatever the
\* dice; no execution performs rounds forever.
C4_EveryMatchTerminates == <>(pc[1] = "done" \/ TokensAtBound(1))

Sent == {t \in Trials : pc[t] = "done"}

SentWith(winner) == {t \in Sent : result[t].winner = winner}

FanInSafe ==
    /\ resultsReceived = Cardinality(Sent)
    /\ results.rebelWins = Cardinality(SentWith(REBELS))
    /\ results.empireWins = Cardinality(SentWith(EMPIRE))
    /\ results.draws = Cardinality(SentWith(NEITHER))
    /\ mainPc = "done" =>
          /\ resultsReceived = nIterations
          /\ Sent = Trials
          /\ results.rebelWins + results.empireWins + results.draws = nIterations

\* C6: the aggregator does not finish before it has received the result of
\* every trial, each exactly once; its counters are the numbers of trials
\* that ended with each outcome; a trial whose match has ended does not stay
\* blocked on its send.
C6_FanInComplete ==
    /\ []FanInSafe
    /\ \A t \in 1 .. NTrials : (pc[t] = "send") ~> (pc[t] = "done")

\* main has finished with results of two different outcomes.
C6_Witness ==
    /\ mainPc = "done"
    /\ results.rebelWins > 0
    /\ results.empireWins > 0

----------------------------------------------------------------------------
(* Two runs of main from one seed: the source starts from a known state,   *)
(* and when the first run has printed its results the program is run again *)
(* from the same state.                                                    *)

Seeds == 0 .. (RngMod - 1)

SeedInit == InitWith(DriverRosters, HookKinds, NTrials, Seeds)

\* main is started again with the seed of the first run.
Rerun ==
    /\ mainPc = "done"
    /\ rerun.run = 1
    /\ ships' = [t \in Trials |-> <<>>]
    /\ rebelList' = [t \in Trials |-> <<>>]
    /\ empireList' = [t \in Trials |-> <<>>]
    /\ pc' = [t \in Trials |-> "idle"]
    /\ ps' = [t \in Trials |-> TopSkill]
    /\ combatants' = [t \in Trials |-> <<>>]
    /\ idx' = [t \in Trials |-> 1]
    /\ result' = [t \in Trials |-> NilResult]
    /\ mainPc' = "spawn"
    /\ spawned' = 0
    /\ resultsReceived' = 0
    /\ results' = NoResults
    /\ rng' = rerun.seed
    /\ rngUsers' = {}
    /\ lastAct' = [t \in Trials |-> NoAct]
    /\ killedInLevel' = [t \in Trials |-> {}]
    /\ rerun' = [run |-> 2, seed |-> rerun.seed, first |-> results]
    /\ acted' = [t \in Trials |-> <<>>]
    /\ UNCHANGED <<roster, hook, nIterations, last, dice, seen>>

SeedNext == Next \/ Rerun

SeedSpec == SeedInit /\ [][SeedNext]_vars

\* C7: the second run from the same seed and rosters ends with the
\* AggregateResults of the first, whatever the interleaving.
C7_SameSeedSameResults ==
    (rerun.run = 2 /\ mainPc = "done") => results = rerun.first

\* C8: the trials share no mutable state: the state of the random source is
\* not written by more than one trial goroutine.
C8_NoSharedSource == Cardinality(rngUsers) <= 1

====
